---- MODULE Spec2Model ----
(***************************************************************************)
(* Model of invenio_oauthclient.contrib.cern: the CERN remote application. *)
(* Python strings are sequences of one-character strings, so that lower(), *)
(* split(), re.match() and the lexical comparison of ISO timestamps are    *)
(* computed, not assumed. A dict is a function from keys to values; a      *)
(* session key or an optional value is a sequence of length 0 (absent) or  *)
(* 1 (present). Python 3 semantics are modelled.                           *)
(***************************************************************************)
EXTENDS Integers, Sequences, FiniteSets, TLC

VARIABLES
    provides,        \* g.identity.provides: the identity's set of needs
    cern_provides,   \* session['identity.cern_provides']: <<>> or <<set>>
    cern_resource,   \* session['cern_resource']: <<>> or <<record>>
    current_user,    \* flask_login.current_user
    request,         \* number of the request being handled
    rest_calls,      \* remote.get() calls issued in this request
    ldap_calls,      \* directory searches issued in this request
    stored_in,       \* request in which cern_resource was last written
    last,            \* outcome of the last operation
    prev,            \* outcome of the operation before the last one
    account,         \* the user's RemoteAccount as committed: <<>> or
                     \* <<extra_data>>
    link,            \* the external-id link of the user: <<>> or <<id>>
    utcnow,          \* datetime.utcnow(), in ticks
    pf               \* state of the pure-function specifications

vars == <<provides, cern_provides, cern_resource, current_user, request,
          rest_calls, ldap_calls, stored_in, last, prev, account, link,
          utcnow, pf>>

session_vars == <<cern_provides, cern_resource, stored_in>>
request_vars == <<request, rest_calls, ldap_calls, current_user>>
account_vars == <<account, link, utcnow>>

(***************************************************************************)
(* Bounds                                                                  *)
(***************************************************************************)
MaxRequests == 2
MaxCalls == 3

(***************************************************************************)
(* Strings                                                                 *)
(***************************************************************************)
LowerChar(c) ==
    CASE c = "A" -> "a"
      [] c = "B" -> "b"
      [] c = "G" -> "g"
      [] c = "U" -> "u"
      [] c = "X" -> "x"
      [] OTHER -> c

\* str.lower()
Lower(s) == [i \in DOMAIN s |-> LowerChar(s[i])]

\* s.startswith(p)
StartsWith(s, p) == Len(s) >= Len(p) /\ SubSeq(s, 1, Len(p)) = p

\* None, kept apart from every string
None == <<"None">>

(***************************************************************************)
(* flask_principal needs                                                   *)
(***************************************************************************)
Need(method, value) == [method |-> method, value |-> value]
UserNeed(value) == Need("id", value)
RoleNeed(value) == Need("role", value)

CernDomain == <<"@", "c", "e", "r", "n", ".", "c", "h">>

\* '{0}@cern.ch'.format(name.lower())
RoleName(name) == Lower(name) \o CernDomain

Range(s) == {s[i] : i \in DOMAIN s}

\* The set extend_identity computes from current_user.email and groups.
DerivedProvides(email, groups) ==
    {UserNeed(email)} \cup {RoleNeed(RoleName(groups[i])) : i \in DOMAIN groups}

\* session.pop(OAUTHCLIENT_CERN_SESSION_KEY, {}): a set when the key is
\* present, the default {} (a dict) when it is not.
PoppedIsSet == cern_provides # <<>>

(***************************************************************************)
(* Inputs of the session model                                             *)
(***************************************************************************)
EmailU == <<"u", "@", "x">>
GroupAb == <<"A", "b">>
Groupab == <<"a", "b">>
GroupC == <<"c">>
LocalRole == RoleNeed(<<"l", "o", "c">>)

GroupLists == {<<>>, <<GroupAb>>, <<Groupab, GroupC>>}

\* Needs an identity may hold before this module extends it.
InitialNeeds ==
    {UserNeed(EmailU), RoleNeed(RoleName(GroupAb)), LocalRole}

\* The time of the first request, in ticks.
Epoch == 20

Users == {[is_authenticated |-> TRUE, email |-> EmailU],
          [is_authenticated |-> FALSE, email |-> <<>>]}

Outcome(op, raised, ret, arg, hit, rest, ldap) ==
    [op |-> op, raised |-> raised, ret |-> ret, arg |-> arg,
     pre_provides |-> provides, pre_cache |-> cern_provides,
     pre_stored_in |-> stored_in, pre_account |-> account, pre_link |-> link,
     hit |-> hit, rest |-> rest, ldap |-> ldap]

\* What is kept of the operation before the last one.
Brief(o) ==
    [op |-> o.op, raised |-> o.raised, ret |-> o.ret, arg |-> o.arg,
     hit |-> o.hit, pre_provides |-> o.pre_provides]

(***************************************************************************)
(* Identity Extension Protocol                                             *)
(***************************************************************************)
\* extend_identity(identity, groups). current_user.email raises
\* AttributeError for the anonymous user, before anything is written.
extend_identity(groups) ==
    IF current_user.is_authenticated
    THEN /\ provides' = provides \cup DerivedProvides(current_user.email, groups)
         /\ cern_provides' = <<DerivedProvides(current_user.email, groups)>>
         /\ last' = Outcome("extend_identity", "none", <<>>, groups, FALSE, 0, 0)
    ELSE /\ UNCHANGED <<provides, cern_provides>>
         /\ last' = Outcome("extend_identity", "AttributeError", <<>>, groups,
                            FALSE, 0, 0)

\* identity.provides -= provides, with the popped value: a set difference
\* when a set was popped, TypeError (set -= dict) when the default {} was.
DisconnectProvides ==
    IF PoppedIsSet THEN provides \ cern_provides[1] ELSE provides

DisconnectRaised == IF PoppedIsSet THEN "none" ELSE "TypeError"

\* disconnect_identity(identity)
disconnect_identity ==
    /\ cern_provides' = <<>>
    /\ provides' = DisconnectProvides
    /\ last' = Outcome("disconnect_identity", DisconnectRaised, <<>>, <<>>,
                       FALSE, 0, 0)

(***************************************************************************)
(* Resource Normalizer                                                     *)
(***************************************************************************)
REMOTE_APP_RESOURCE_SCHEMA == "http://schemas.xmlsoap.org/claims/"

RECURSIVE Concat(_)
Concat(parts) ==
    IF parts = <<>> THEN "" ELSE Head(parts) \o Concat(Tail(parts))

\* i['Type'].replace(REMOTE_APP_RESOURCE_SCHEMA, ''): a type is the sequence
\* of its parts, the schema URI being one part wherever it occurs.
StripSchema(type) ==
    Concat(SelectSeq(type, LAMBDA part : part # REMOTE_APP_RESOURCE_SCHEMA))

RECURSIVE ValuesOf(_, _)
\* The 'Value's of the claims of key k, in arrival order.
ValuesOf(data, k) ==
    IF data = <<>> THEN <<>>
    ELSE IF StripSchema(Head(data).Type) = k
         THEN <<Head(data).Value>> \o ValuesOf(Tail(data), k)
         ELSE ValuesOf(Tail(data), k)

\* get_dict_from_response(response)
get_dict_from_response(response) ==
    IF response.code > 400
    THEN <<>>
    ELSE [k \in {StripSchema(response.data[i].Type) : i \in DOMAIN response.data}
            |-> ValuesOf(response.data, k)]

\* Truth value of a dict: false for None and for the empty dict.
Truthy(opt) == opt # <<>> /\ DOMAIN opt[1] # {}

Claim(name, value) ==
    [Type |-> <<REMOTE_APP_RESOURCE_SCHEMA, name>>, Value |-> value]

\* Responses of remote.get(REMOTE_APP_RESOURCE_API_URL).
RestResponses ==
    {[code |-> 200, data |-> <<Claim("EmailAddress", EmailU),
                               Claim("Group", GroupAb), Claim("Group", GroupC)>>],
     [code |-> 200, data |-> <<Claim("Group", GroupC)>>],
     [code |-> 200, data |-> <<>>],
     [code |-> 401, data |-> <<>>]}

(***************************************************************************)
(* Directory Fallback Client                                               *)
(***************************************************************************)
\* Code points of the characters the model uses.
Ord ==
    ("," :> 44) @@ ("-" :> 45) @@ ("." :> 46) @@ ("0" :> 48) @@ ("1" :> 49) @@
    ("2" :> 50) @@ ("3" :> 51) @@ ("4" :> 52) @@ ("5" :> 53) @@ ("6" :> 54) @@
    ("7" :> 55) @@ ("8" :> 56) @@ ("9" :> 57) @@ (":" :> 58) @@ ("=" :> 61) @@
    ("@" :> 64) @@ ("A" :> 65) @@ ("B" :> 66) @@ ("C" :> 67) @@ ("G" :> 71) @@
    ("N" :> 78) @@ ("O" :> 79) @@ ("T" :> 84) @@ ("U" :> 85) @@ ("X" :> 88) @@
    ("a" :> 97) @@ ("b" :> 98) @@ ("c" :> 99) @@ ("g" :> 103) @@ ("u" :> 117) @@
    ("w" :> 119) @@ ("x" :> 120)

Chr(n) == CHOOSE c \in DOMAIN Ord : Ord[c] = n

\* A bytes object is the sequence of its byte values.
Bytes(s) == [i \in DOMAIN s |-> Ord[s[i]]]

\* bytes.decode("utf-8"), on ASCII bytes
Decode(b) == [i \in DOMAIN b |-> Chr(b[i])]

RECURSIVE Split(_, _)
\* b.split(sep) for a one-byte separator
Split(b, sep) ==
    IF \E i \in DOMAIN b : b[i] = sep
    THEN LET i == CHOOSE j \in DOMAIN b :
                      b[j] = sep /\ \A k \in 1..(j - 1) : b[k] # sep
         IN <<SubSeq(b, 1, i - 1)>> \o Split(SubSeq(b, i + 1, Len(b)), sep)
    ELSE <<b>>

RECURSIVE MemberGroups(_)
\* The loop over res['memberOf']: an IndexError (a DN whose first component
\* has no '=') ends the loop and keeps the groups appended so far.
MemberGroups(dns) ==
    IF dns = <<>> THEN <<>>
    ELSE LET kv == Split(Split(Head(dns), Ord[","])[1], Ord["="])
         IN IF Len(kv) < 2 THEN <<>>
            ELSE <<Decode(kv[2])>> \o MemberGroups(Tail(dns))

\* get_ldap_field_str(res, key)
get_ldap_field_str(res, key) ==
    IF key \in DOMAIN res /\ res[key] # <<>> /\ res[key][1] # <<>>
    THEN <<Decode(res[key][1])>>
    ELSE <<None>>

\* The value of res when the return statement is reached: the first entry's
\* attributes, assigned by res = res[0][1] before the mail is compared.
LdapRes(result) == result[2][1][2]

\* groups when the return statement is reached.
LdapGroups(email, result) ==
    IF Lower(Decode(LdapRes(result)["mail"][1])) = Lower(email)
    THEN MemberGroups(LdapRes(result)["memberOf"])
    ELSE <<>>

LdapRecord(email, groups, res) ==
    [Group |-> groups,
     EmailAddress |-> <<email>>,
     uidNumber |-> get_ldap_field_str(res, "uidNumber"),
     CommonName |-> get_ldap_field_str(res, "cn"),
     Firstname |-> get_ldap_field_str(res, "displayName"),
     Lastname |-> get_ldap_field_str(res, "displayName"),
     DisplayName |-> get_ldap_field_str(res, "displayName"),
     Building |-> get_ldap_field_str(res, "physicalDeliveryOfficeName"),
     Department |-> get_ldap_field_str(res, "department"),
     PersonID |-> get_ldap_field_str(res, "employeeID"),
     IdentityClass |-> get_ldap_field_str(res, "department")]

Returned(value) == [raised |-> "none", ret |-> <<value>>]
Raised(exception) == [raised |-> exception, ret |-> <<>>]

\* get_user_resources_ldap(user), result being what lc.result() returns:
\* <<result type, list of <<dn, attributes>>>>.
get_user_resources_ldap(email, result) ==
    IF email = <<>> THEN Returned([json |-> <<>>])
    ELSE IF result[2] = <<>>
    THEN \* res[0] raises IndexError with res the empty list; the except
         \* clause passes and get_ldap_field_str calls res.get on a list.
         Raised("AttributeError")
    ELSE IF "mail" \notin DOMAIN LdapRes(result) THEN Raised("KeyError")
    ELSE IF /\ Lower(Decode(LdapRes(result)["mail"][1])) = Lower(email)
            /\ "memberOf" \notin DOMAIN LdapRes(result)
    THEN Raised("KeyError")
    ELSE Returned(LdapRecord(email, LdapGroups(email, result), LdapRes(result)))

RES_SEARCH_RESULT == 101

LdapEntry(mail, attrs) ==
    <<Bytes(<<"C", "N", "=", "u">>), ("mail" :> <<Bytes(mail)>>) @@ attrs>>

DnGx == Bytes(<<"C", "N", "=", "G", "x", ",", "O", "U", "=", "w">>)
DnAb == Bytes(<<"C", "N", "=", "A", "b", ",", "O", "U", "=", "w">>)
DnBad == Bytes(<<"G", "x">>)

\* What lc.result() gives get_resource's fallback in the session model.
LdapResults ==
    {<<RES_SEARCH_RESULT, <<>>>>,
     <<RES_SEARCH_RESULT,
       <<LdapEntry(<<"U", "@", "X">>,
                   ("memberOf" :> <<DnGx>>) @@ ("uidNumber" :> <<Bytes(<<"4">>)>>))>>>>,
     <<RES_SEARCH_RESULT,
       <<LdapEntry(<<"x", "u", "@", "x">>,
                   ("memberOf" :> <<DnAb>>) @@ ("uidNumber" :> <<Bytes(<<"7">>)>>))>>>>}

(***************************************************************************)
(* Resource Fetcher                                                        *)
(***************************************************************************)
\* Whether the popped cache slot ends the call: if cached_resource.
CacheHit == Truthy(cern_resource)

\* Variant: the directory is queried whoever the current user is.
FallbackAlways == TRUE

\* elif current_user.is_authenticated: whether the directory is queried
\* after a REST response other than 200.
FallbackAllowed == current_user.is_authenticated

\* Variant: the response is never written to the session.
StoresNothing(response) == <<>>

\* The cache slot after the call that received response.
StoredResource(response) ==
    IF response.code = 200 THEN <<get_dict_from_response(response)>> ELSE <<>>

\* What one get_resource(remote) call does, response being what remote.get
\* returns and result what lc.result() returns if the directory is queried:
\* the outcome, the cache slot left behind and the upstream calls issued.
ResourceCall(response, result) ==
    IF CacheHit
    THEN [raised |-> "none", ret |-> cern_resource, slot |-> <<>>,
          hit |-> TRUE, rest |-> 0, ldap |-> 0]
    ELSE IF response.code = 200
    THEN [raised |-> "none", ret |-> <<get_dict_from_response(response)>>,
          slot |-> StoredResource(response), hit |-> FALSE, rest |-> 1,
          ldap |-> 0]
    ELSE IF FallbackAllowed
    THEN LET r == get_user_resources_ldap(current_user.email, result)
         IN [raised |-> r.raised, ret |-> r.ret,
             slot |-> StoredResource(response), hit |-> FALSE, rest |-> 1,
             \* no search is issued for an empty email
             ldap |-> IF current_user.email = <<>> THEN 0 ELSE 1]
    ELSE [raised |-> "BadRequest", ret |-> <<>>,
          slot |-> StoredResource(response), hit |-> FALSE, rest |-> 1,
          ldap |-> 0]

\* The session and the counters after the call c.
ResourceEffect(c, code) ==
    /\ cern_resource' = c.slot
    /\ rest_calls' = rest_calls + c.rest
    /\ ldap_calls' = ldap_calls + c.ldap
    /\ stored_in' = IF ~c.hit /\ code = 200 THEN request ELSE stored_in

\* get_resource(remote)
get_resource(response, result) ==
    \E c \in {ResourceCall(response, result)} :
        /\ ResourceEffect(c, response.code)
        /\ last' = Outcome("get_resource", c.raised, c.ret,
                           IF c.hit THEN <<>> ELSE response, c.hit, c.rest,
                           c.ldap)

GetResource ==
    /\ rest_calls < MaxCalls
    /\ \E response \in RestResponses, result \in LdapResults :
           get_resource(response, result)
    /\ prev' = Brief(last)
    /\ UNCHANGED <<provides, cern_provides, request, current_user, account_vars,
                   pf>>

ExtendIdentity ==
    /\ \E groups \in GroupLists : extend_identity(groups)
    /\ prev' = Brief(last)
    /\ UNCHANGED <<cern_resource, stored_in, request_vars, account_vars, pf>>

DisconnectIdentity ==
    /\ disconnect_identity
    /\ prev' = Brief(last)
    /\ UNCHANGED <<cern_resource, stored_in, request_vars, account_vars, pf>>

\* Variant: the role cache not merged into a loaded identity.
IdentityLoadedIgnored(base) == base

\* on_identity_loaded(sender, identity), base being what the identity
\* provides when the signal is sent.
on_identity_loaded(base) ==
    base \cup (IF cern_provides = <<>> THEN {} ELSE cern_provides[1])

\* A later request of the same browser session: the Flask session outlives
\* the request, the per-request counters start again, and the identity is
\* loaded anew, which sends identity_loaded.
NewRequest ==
    /\ request < MaxRequests
    /\ request' = request + 1
    /\ rest_calls' = 0
    /\ ldap_calls' = 0
    /\ \E u \in Users : current_user' = u
    /\ \E base \in SUBSET InitialNeeds : provides' = on_identity_loaded(base)
    /\ last' = Outcome("new_request", "none", <<>>, <<>>, FALSE, 0, 0)
    /\ prev' = Brief(last)
    /\ UNCHANGED <<session_vars, account_vars, pf>>

Init ==
    /\ provides \in SUBSET InitialNeeds
    /\ cern_provides = <<>>
    /\ cern_resource = <<>>
    /\ current_user \in Users
    /\ request = 1
    /\ rest_calls = 0
    /\ ldap_calls = 0
    /\ stored_in = 0
    /\ account = <<>>
    /\ link = <<>>
    /\ utcnow = Epoch
    /\ last = Outcome("init", "none", <<>>, <<>>, FALSE, 0, 0)
    /\ prev = Brief(last)
    /\ pf = <<>>

Next ==
    \/ ExtendIdentity
    \/ DisconnectIdentity
    \/ NewRequest
    \/ GetResource

Spec == Init /\ [][Next]_vars

(***************************************************************************)
(* Extra-Data Refresh Engine: should_refresh_groups                        *)
(***************************************************************************)
\* Times are counted in ticks of half a minute; isoformat() writes the whole
\* minutes zero-padded to a fixed width and the fraction only when it is not
\* zero, as datetime.isoformat() does with the microseconds.
TicksPerMinute == 2
MaxTick == 30
Nows == 20..24

Digit(n) == Chr(Ord["0"] + n)

\* Variant: the minutes written without zero padding.
IsoUnpadded(t) ==
    (IF t \div TicksPerMinute >= 10
     THEN <<Digit((t \div TicksPerMinute) \div 10)>> ELSE <<>>)
    \o <<Digit((t \div TicksPerMinute) % 10)>>
    \o (IF t % TicksPerMinute = 0 THEN <<>> ELSE <<".", "5">>)

\* datetime.isoformat()
IsoFormat(t) ==
    <<Digit((t \div TicksPerMinute) \div 10), Digit((t \div TicksPerMinute) % 10)>>
    \o (IF t % TicksPerMinute = 0 THEN <<>> ELSE <<".", "5">>)

RECURSIVE StrGreater(_, _)
\* a > b on Python strings: by code point, a proper prefix being smaller.
StrGreater(a, b) ==
    IF a = <<>> THEN FALSE
    ELSE IF b = <<>> THEN TRUE
    ELSE IF Ord[Head(a)] # Ord[Head(b)] THEN Ord[Head(a)] > Ord[Head(b)]
    ELSE StrGreater(Tail(a), Tail(b))

\* modified_since: utcnow() plus the timedelta if there is one, as a string.
ModifiedSince(now, refresh_timedelta) ==
    IsoFormat(IF refresh_timedelta = <<>> THEN now ELSE now + refresh_timedelta[1])

\* should_refresh_groups(extra_data_updated, refresh_timedelta) called at
\* time now. `if updated is None` tests the datetime just taken, never the
\* argument, so a None argument reaches the comparison: None > str raises.
should_refresh_groups(extra_data_updated, refresh_timedelta, now) ==
    IF extra_data_updated = <<>> THEN Raised("TypeError")
    ELSE IF StrGreater(extra_data_updated[1], ModifiedSince(now, refresh_timedelta))
    THEN Returned(FALSE)
    ELSE Returned(TRUE)

OAUTHCLIENT_CERN_REFRESH_TIMEDELTA == -5 * TicksPerMinute

Timedeltas == {<<>>, <<OAUTHCLIENT_CERN_REFRESH_TIMEDELTA>>, <<0>>, <<3>>}

\* The session model at rest, for the specifications of single functions.
SessionIdle ==
    /\ provides = {}
    /\ cern_provides = <<>>
    /\ cern_resource = <<>>
    /\ current_user = [is_authenticated |-> FALSE, email |-> <<>>]
    /\ request = 1
    /\ rest_calls = 0
    /\ ldap_calls = 0
    /\ stored_in = 0
    /\ account = <<>>
    /\ link = <<>>
    /\ utcnow = Epoch
    /\ last = Outcome("init", "none", <<>>, <<>>, FALSE, 0, 0)
    /\ prev = Brief(last)

SessionUnchanged ==
    UNCHANGED <<provides, cern_provides, cern_resource, current_user, request,
                rest_calls, ldap_calls, stored_in, last, prev, account, link,
                utcnow>>

\* updated_at is the time the timestamp was written at, <<>> for None.
InitRefresh ==
    /\ SessionIdle
    /\ \E now \in Nows, w \in Timedeltas, t \in {<<>>} \cup {<<u>> : u \in 0..MaxTick} :
           pf = [stage |-> "call", now |-> now, refresh_timedelta |-> w,
                 updated_at |-> t, out |-> <<>>]

ShouldRefreshGroups ==
    /\ pf.stage = "call"
    /\ pf' = [pf EXCEPT
                !.stage = "done",
                !.out = <<should_refresh_groups(
                            IF pf.updated_at = <<>> THEN <<>>
                            ELSE <<IsoFormat(pf.updated_at[1])>>,
                            pf.refresh_timedelta, pf.now)>>]
    /\ SessionUnchanged

NextRefresh == ShouldRefreshGroups

SpecRefresh == InitRefresh /\ [][NextRefresh]_vars

(***************************************************************************)
(* Group Filter: fetch_groups                                              *)
(***************************************************************************)
MaxGroups == 3

\* A compiled pattern 'lit[cls]' or 'lit[cls]+': a literal, then one
\* character of a class, or one or more.
Pattern(lit, cls, rep) == [lit |-> lit, cls |-> cls, rep |-> rep]

\* The strings the whole pattern matches.
InLanguage(p, x) ==
    /\ StartsWith(x, p.lit)
    /\ Len(x) > Len(p.lit)
    /\ p.rep = "one" => Len(x) = Len(p.lit) + 1
    /\ \A i \in (Len(p.lit) + 1)..Len(x) : x[i] \in p.cls

\* regexp.match(group): the pattern matches some prefix of the string.
re_match(p, s) == \E k \in 0..Len(s) : InLanguage(p, SubSeq(s, 1, k))

RECURSIVE MatchingGroups(_, _)
\* The inner loop: the groups one regexp matches, in order.
MatchingGroups(regexp, groups) ==
    IF groups = <<>> THEN <<>>
    ELSE (IF re_match(regexp, Head(groups)) THEN <<Head(groups)>> ELSE <<>>)
         \o MatchingGroups(regexp, Tail(groups))

\* Variant: only the first regexp is applied.
FirstRegexpOnly(hidden_groups_re, groups) ==
    IF hidden_groups_re = <<>> THEN <<>>
    ELSE MatchingGroups(Head(hidden_groups_re), groups)

RECURSIVE FilterGroups(_, _)
\* filter_groups after the loop over hidden_groups_re.
FilterGroups(hidden_groups_re, groups) ==
    IF hidden_groups_re = <<>> THEN <<>>
    ELSE MatchingGroups(Head(hidden_groups_re), groups)
         \o FilterGroups(Tail(hidden_groups_re), groups)

\* [group for group in groups if group not in excluded]
Without(groups, excluded) ==
    SelectSeq(groups, LAMBDA group : group \notin Range(excluded))

\* fetch_groups(groups) under the configured deny-lists.
fetch_groups(groups, hidden_groups, hidden_groups_re) ==
    Without(Without(groups, hidden_groups),
            FilterGroups(hidden_groups_re, Without(groups, hidden_groups)))

Digits == {"0", "1", "2", "3", "4", "5", "6", "7", "8", "9"}
Capitals == {"A", "B", "C", "G", "N", "O", "T", "U", "X"}

\* Deny-lists shaped like the defaults: 'CERN Users'; 'Users by Letter
\* [A-Z]' and 'building-[\d]+'.
HiddenGroups == <<<<"C", "U">>>>
HiddenGroupsRe == <<Pattern(<<"U">>, Capitals, "one"),
                    Pattern(<<"b", "-">>, Digits, "plus")>>

NameBuilding == <<"b", "-", "1">>
NameBuildingAnnex == <<"b", "-", "1", "2", "x">>
NameNotAtStart == <<"x", "b", "-", "1">>
NameLetter == <<"U", "A">>

GroupNames ==
    {<<"C", "U">>, NameBuilding, NameBuildingAnnex, NameNotAtStart, NameLetter,
     Groupab}

GroupInputs == UNION {[1..n -> GroupNames] : n \in 0..MaxGroups}

InitGroups ==
    /\ SessionIdle
    /\ \E groups \in GroupInputs, hidden \in {<<>>, HiddenGroups},
          hidden_re \in {<<>>, HiddenGroupsRe} :
           pf = [stage |-> "call", groups |-> groups, hidden_groups |-> hidden,
                 hidden_groups_re |-> hidden_re, out |-> <<>>]

FetchGroups ==
    /\ pf.stage = "call"
    /\ pf' = [pf EXCEPT
                !.stage = "done",
                !.out = <<fetch_groups(pf.groups, pf.hidden_groups,
                                       pf.hidden_groups_re)>>]
    /\ SessionUnchanged

NextGroups == FetchGroups

SpecGroups == InitGroups /\ [][NextGroups]_vars

(***************************************************************************)
(* Directory Fallback Client: get_user_resources_ldap                      *)
(***************************************************************************)
LdapMails == {<<"u", "@", "x">>, <<"U", "@", "X">>, <<"x", "u", "@", "x">>}

LdapMemberOf ==
    {<<>>} \cup {<<dns>> : dns \in {<<DnGx>>, <<DnGx, DnAb>>, <<DnBad, DnGx>>}}

LdapAttrs ==
    {IF m = <<>> THEN a ELSE ("memberOf" :> m[1]) @@ a :
        m \in LdapMemberOf,
        a \in {<<>>,
               ("uidNumber" :> <<Bytes(<<"4", "2">>)>>),
               ("uidNumber" :> <<Bytes(<<"4", "2">>)>>)
                   @@ ("employeeID" :> <<Bytes(<<"7">>)>>)
                   @@ ("displayName" :> <<Bytes(<<"A", "b">>)>>)
                   @@ ("department" :> <<Bytes(<<"X">>)>>)
                   @@ ("physicalDeliveryOfficeName" :> <<Bytes(<<"1">>)>>)}}

LdapInputs ==
    {<<RES_SEARCH_RESULT, <<>>>>}
    \cup {<<RES_SEARCH_RESULT, <<LdapEntry(mail, attrs)>>>> :
            mail \in LdapMails, attrs \in LdapAttrs}

InitLdap ==
    /\ SessionIdle
    /\ \E email \in {<<>>, EmailU, <<"U", "@", "x">>}, result \in LdapInputs :
           pf = [stage |-> "call", email |-> email, result |-> result,
                 out |-> <<>>]

GetUserResourcesLdap ==
    /\ pf.stage = "call"
    /\ pf' = [pf EXCEPT
                !.stage = "done",
                !.out = <<get_user_resources_ldap(pf.email, pf.result)>>]
    /\ SessionUnchanged

NextLdap == GetUserResourcesLdap

SpecLdap == InitLdap /\ [][NextLdap]_vars

(***************************************************************************)
(* Handlers: account_setup, on_identity_changed, disconnect_handler        *)
(***************************************************************************)
\* account is the user's RemoteAccount as the database holds it between
\* handler calls: what a handler wrote and did not commit is rolled back
\* when the handler raises, and kept when it returns.

\* dict.get(k, default)
Get(d, k, default) == IF k \in DOMAIN d THEN d[k] ELSE default

\* fetch_extra_data(resource)
fetch_extra_data(resource) ==
    [person_id |-> Get(resource, "PersonID", <<None>>)[1],
     identity_class |-> Get(resource, "IdentityClass", <<None>>)[1],
     department |-> Get(resource, "Department", <<None>>)[1]]

\* Variant: the refreshed groups appended to the groups already stored.
AppendedExtraData(extra_data, groups, updated, extra) ==
    ("groups" :> Get(extra_data, "groups", <<>>) \o groups)
    @@ ("updated" :> updated) @@ extra @@ extra_data

\* Variant: the external id derived anew from the refreshed record.
RekeyedExtraData(extra_data, groups, updated, extra) ==
    ("external_id" :> extra.person_id) @@ ("groups" :> groups)
    @@ ("updated" :> updated) @@ extra @@ extra_data

\* account.extra_data.update(groups=groups, updated=updated, **extra_data)
UpdatedExtraData(extra_data, groups, updated, extra) ==
    ("groups" :> groups) @@ ("updated" :> updated) @@ extra @@ extra_data

\* account_groups_and_extra_data(account, resource) called at time t with
\* the default serializer: resource['Group'] raises KeyError before anything
\* is written; otherwise the snapshot is updated and committed.
account_groups_and_extra_data(extra_data, resource, t) ==
    IF "Group" \notin DOMAIN resource
    THEN [raised |-> "KeyError", extra_data |-> extra_data, groups |-> <<>>]
    ELSE [raised |-> "none",
          extra_data |-> UpdatedExtraData(
                             extra_data,
                             fetch_groups(resource["Group"], HiddenGroups,
                                          HiddenGroupsRe),
                             IsoFormat(t), fetch_extra_data(resource)),
          groups |-> fetch_groups(resource["Group"], HiddenGroups,
                                  HiddenGroupsRe)]

\* resource.get('uidNumber', resource.get('PersonID', [None]))[0]
ExternalId(resource) ==
    Get(resource, "uidNumber", Get(resource, "PersonID", <<None>>))[1]

\* oauth_link_external_id(user, dict(id=external_id, method='cern')): the
\* link is created; a link has an id.
oauth_link_external_id(external_id) ==
    IF external_id = None
    THEN [raised |-> "AlreadyLinkedError", link |-> link]
    ELSE [raised |-> "none", link |-> <<external_id>>]

\* oauth_unlink_external_id(dict(id=external_id, method='cern'))
oauth_unlink_external_id(external_id) ==
    IF link = <<external_id>> THEN <<>> ELSE link

\* Variant: every identity taken for that of a logged-in user.
NeverAnonymous == FALSE

\* isinstance(identity, AnonymousIdentity): the identity of a request is
\* the anonymous one exactly when no user is logged in.
IsAnonymousIdentity == ~current_user.is_authenticated

\* get_resource is not called.
NoCall ==
    [raised |-> "none", ret |-> <<>>, slot |-> cern_resource, hit |-> FALSE,
     rest |-> 0, ldap |-> 0]

\* What a handler knows of its run: whether get_resource was called, the
\* record it returned, what should_refresh_groups returned, and the groups
\* handed to extend_identity.
Info(called, resource, refresh, groups) ==
    [called |-> called, resource |-> resource, refresh |-> refresh,
     groups |-> groups]

\* A handler that returns None and touches nothing.
Untouched ==
    [raised |-> "none", ret |-> None, call |-> NoCall, code |-> 0,
     account |-> account, link |-> link, provides |-> provides,
     cache |-> cern_provides, info |-> Info(FALSE, <<>>, <<>>, <<>>)]

\* extend_identity(identity, groups) inside a handler e.
Extended(e, groups) ==
    IF current_user.is_authenticated
    THEN [e EXCEPT
            !.provides = provides \cup DerivedProvides(current_user.email, groups),
            !.cache = <<DerivedProvides(current_user.email, groups)>>,
            !.info.groups = <<groups>>]
    ELSE [e EXCEPT !.raised = "AttributeError", !.info.groups = <<groups>>]

\* account_setup(remote, token, resp). The snapshot is committed by
\* account_groups_and_extra_data before the identity is asserted not to be
\* anonymous.
account_setup(response, result) ==
    LET c == ResourceCall(response, result)
        e == [Untouched EXCEPT !.call = c, !.code = response.code,
                               !.info.called = TRUE]
    IN IF c.raised # "none" THEN [e EXCEPT !.raised = c.raised]
       ELSE LET resource == c.ret[1]
                r == account_groups_and_extra_data(
                         "external_id" :> ExternalId(resource), resource, utcnow)
                f == [e EXCEPT !.info.resource = <<resource>>]
            IN IF r.raised # "none" THEN [f EXCEPT !.raised = r.raised]
               ELSE IF IsAnonymousIdentity
               THEN [f EXCEPT !.raised = "AssertionError",
                              !.account = <<r.extra_data>>]
               ELSE LET x == Extended([f EXCEPT !.account = <<r.extra_data>>],
                                      r.groups)
                        l == oauth_link_external_id(ExternalId(resource))
                    IN IF x.raised # "none" THEN x
                       ELSE [x EXCEPT !.raised = l.raised, !.link = l.link]

\* should_refresh_groups(account.extra_data.get('updated', None),
\* refresh_timedelta) at time t, under the default timedelta.
RefreshNeeded(extra_data, t) ==
    should_refresh_groups(
        IF "updated" \in DOMAIN extra_data THEN <<extra_data["updated"]>> ELSE <<>>,
        <<OAUTHCLIENT_CERN_REFRESH_TIMEDELTA>>, t)

\* on_identity_changed(sender, identity). groups is the list read from the
\* snapshot; a refresh extends that list with the list it returns.
on_identity_changed(response, result) ==
    IF IsAnonymousIdentity \/ account = <<>> THEN Untouched
    ELSE LET groups == Get(account[1], "groups", <<>>)
             s == RefreshNeeded(account[1], utcnow)
         IN IF s.raised # "none" THEN [Untouched EXCEPT !.raised = s.raised]
            ELSE IF ~s.ret[1]
            THEN Extended([Untouched EXCEPT !.info.refresh = <<FALSE>>], groups)
            ELSE LET c == ResourceCall(response, result)
                     e == [Untouched EXCEPT !.call = c, !.code = response.code,
                                            !.info.called = TRUE,
                                            !.info.refresh = <<TRUE>>]
                 IN IF c.raised # "none" THEN [e EXCEPT !.raised = c.raised]
                    ELSE LET r == account_groups_and_extra_data(
                                      account[1], c.ret[1], utcnow)
                             f == [e EXCEPT !.info.resource = <<c.ret[1]>>]
                         IN IF r.raised # "none"
                            THEN [f EXCEPT !.raised = r.raised]
                            ELSE Extended(
                                     [f EXCEPT !.account = <<r.extra_data>>],
                                     groups \o r.groups)

\* Variant: the handler run for anyone.
DisconnectAlways == TRUE

\* current_user.is_authenticated, tested on entry of disconnect_handler.
DisconnectAllowed == current_user.is_authenticated

Unauthorized == <<"unauthorized">>
Redirect == <<"redirect">>

\* disconnect_handler(remote). account.extra_data raises AttributeError when
\* RemoteAccount.get returned None; disconnect_identity raises TypeError
\* when the session holds no role cache, after the key was popped.
disconnect_handler ==
    IF ~DisconnectAllowed THEN [Untouched EXCEPT !.ret = Unauthorized]
    ELSE IF account = <<>> THEN [Untouched EXCEPT !.raised = "AttributeError"]
    ELSE IF ~PoppedIsSet
    THEN [Untouched EXCEPT !.raised = DisconnectRaised, !.cache = <<>>]
    ELSE [Untouched EXCEPT
            !.ret = Redirect,
            !.link = IF Get(account[1], "external_id", None) # None
                     THEN oauth_unlink_external_id(account[1]["external_id"])
                     ELSE link,
            !.account = <<>>,
            !.provides = DisconnectProvides,
            !.cache = <<>>]

\* Responses of remote.get in the handlers: a record with two groups, one
\* of them hidden; a record with another group; a record that names no
\* person; a record without groups; a refusal.
HandlerResponses ==
    {[code |-> 200, data |-> <<Claim("EmailAddress", EmailU),
                               Claim("uidNumber", <<"4">>),
                               Claim("Group", GroupAb),
                               Claim("Group", <<"C", "U">>)>>],
     [code |-> 200, data |-> <<Claim("PersonID", <<"7">>),
                               Claim("Group", GroupC)>>],
     [code |-> 200, data |-> <<Claim("Group", GroupC)>>],
     [code |-> 200, data |-> <<Claim("EmailAddress", EmailU)>>],
     [code |-> 401, data |-> <<>>]}

\* Needs an identity may hold before a handler extends it.
HandlerNeeds == {LocalRole}

\* Time that passes between two requests, in ticks: within the refresh
\* window and beyond it.
Delays == {3, 12}

\* The state after a handler whose run is e. Of the operations before it,
\* last keeps what the handlers' properties need: the state it started in.
Handle(op, e) ==
    /\ ResourceEffect(e.call, e.code)
    /\ account' = e.account
    /\ link' = e.link
    /\ provides' = e.provides
    /\ cern_provides' = e.cache
    /\ last' = Outcome(op, e.raised, e.ret, e.info, e.call.hit, e.call.rest,
                       e.call.ldap)
    /\ UNCHANGED <<request, current_user, utcnow, prev, pf>>

\* The setup handler is run on the first successful login of an account:
\* none is linked yet.
FirstLogin == account = <<>>

AccountSetup ==
    /\ FirstLogin
    /\ rest_calls < MaxCalls
    /\ \E response \in HandlerResponses, result \in LdapResults :
           \E e \in {account_setup(response, result)} : Handle("account_setup", e)

OnIdentityChanged ==
    /\ rest_calls < MaxCalls
    /\ \E response \in HandlerResponses, result \in LdapResults :
           \E e \in {on_identity_changed(response, result)} :
               Handle("on_identity_changed", e)

DisconnectHandler ==
    \E e \in {disconnect_handler} : Handle("disconnect_handler", e)

\* A later request of the session: time has passed, and the identity is
\* loaded anew, which sends identity_loaded.
LaterRequest ==
    /\ request < MaxRequests
    /\ request' = request + 1
    /\ rest_calls' = 0
    /\ ldap_calls' = 0
    /\ \E d \in Delays : utcnow' = utcnow + d
    /\ \E u \in Users : current_user' = u
    /\ \E base \in SUBSET HandlerNeeds :
           /\ provides' = on_identity_loaded(base)
           /\ last' = Outcome("identity_loaded", "none", <<>>, base, FALSE, 0, 0)
    /\ UNCHANGED <<session_vars, account, link, prev, pf>>

\* The first request of a session of a user who has no linked account yet.
InitAccount ==
    /\ provides \in SUBSET HandlerNeeds
    /\ cern_provides = <<>>
    /\ cern_resource = <<>>
    /\ current_user \in Users
    /\ request = 1
    /\ rest_calls = 0
    /\ ldap_calls = 0
    /\ stored_in = 0
    /\ account = <<>>
    /\ link = <<>>
    /\ utcnow = Epoch
    /\ last = Outcome("init", "none", <<>>, <<>>, FALSE, 0, 0)
    /\ prev = Brief(last)
    /\ pf = <<>>

NextAccount ==
    \/ AccountSetup
    \/ OnIdentityChanged
    \/ DisconnectHandler
    \/ LaterRequest

SpecAccount == InitAccount /\ [][NextAccount]_vars

(***************************************************************************)
(* Properties                                                              *)
(***************************************************************************)
CacheSet(opt) == IF opt = <<>> THEN {} ELSE opt[1]

IsCall(o, op) == o.op = op /\ o.raised = "none"

\* C1: extend_identity followed immediately by disconnect_identity leaves
\* the identity's claim set equal to its value before the extension,
\* whatever that value was, and leaves the Session Role Cache empty.
C1_RoundTrip ==
    (last.op = "disconnect_identity" /\ IsCall(prev, "extend_identity"))
        => (provides = prev.pre_provides /\ cern_provides = <<>>)

\* C2: after any extend_identity the Session Role Cache is exactly the set
\* derived from that call's groups; disconnect_identity removes exactly the
\* cached set from the identity and empties the cache, and with an empty
\* cache it completes as a no-op.
C2_ReplaceThenRemove ==
    /\ IsCall(last, "extend_identity")
           => cern_provides = <<DerivedProvides(current_user.email, last.arg)>>
    /\ last.op = "disconnect_identity"
           => /\ last.raised = "none"
              /\ cern_provides = <<>>
              /\ provides = last.pre_provides \ CacheSet(last.pre_cache)

\* C3: should_refresh_groups called without a last-updated timestamp returns
\* true for every refresh window; it never returns false and never fails.
C3_NoneAlwaysRefreshes ==
    (pf.stage = "done" /\ pf.updated_at = <<>>) => pf.out[1] = Returned(TRUE)

Window(refresh_timedelta) ==
    IF refresh_timedelta = <<>> THEN 0 ELSE refresh_timedelta[1]

\* C4: for a timestamp written at time t, should_refresh_groups returns false
\* exactly when t is strictly later than now + window, and true otherwise.
C4_FalseExactlyWhenLater ==
    (pf.stage = "done" /\ pf.updated_at # <<>>)
        => pf.out[1] =
               Returned(~(pf.updated_at[1] > pf.now + Window(pf.refresh_timedelta)))

\* With the default window of -5 minutes a timestamp one minute old is fresh
\* and one ten minutes old is stale.
C4_Witness ==
    /\ pf.stage = "done"
    /\ pf.refresh_timedelta = <<OAUTHCLIENT_CERN_REFRESH_TIMEDELTA>>
    /\ pf.updated_at = <<pf.now - 1 * TicksPerMinute>>
    /\ pf.out[1] = Returned(FALSE)
    /\ should_refresh_groups(<<IsoFormat(pf.now - 10 * TicksPerMinute)>>,
                             pf.refresh_timedelta, pf.now) = Returned(TRUE)

GroupDenied(group, hidden_groups, hidden_groups_re) ==
    \/ group \in Range(hidden_groups)
    \/ \E i \in DOMAIN hidden_groups_re : re_match(hidden_groups_re[i], group)

\* C5: fetch_groups returns the input list without the groups that equal an
\* exact deny-list entry or that a deny regex matches from the start of the
\* string, keeping the order and multiplicity of the others; a name with a
\* denied prefix goes, a name holding the pattern further in stays.
C5_FetchGroupsRemovesExactlyDenied ==
    pf.stage = "done"
        => /\ pf.out[1] =
                  SelectSeq(pf.groups,
                            LAMBDA group : ~GroupDenied(group, pf.hidden_groups,
                                                        pf.hidden_groups_re))
           /\ pf.groups = <<>> => pf.out[1] = <<>>
           /\ pf.hidden_groups_re = HiddenGroupsRe
                  => /\ NameBuildingAnnex \notin Range(pf.out[1])
                     /\ NameNotAtStart \in Range(pf.groups)
                            => NameNotAtStart \in Range(pf.out[1])

C5_Witness ==
    /\ pf.stage = "done"
    /\ pf.groups = <<NameBuildingAnnex, Groupab, <<"C", "U">>>>
    /\ pf.hidden_groups = HiddenGroups
    /\ pf.hidden_groups_re = HiddenGroupsRe
    /\ pf.out[1] = <<Groupab>>

\* The last two operations are get_resource calls of one request, the first
\* of which got HTTP 200 from the REST resource.
SecondCallAfter200 ==
    /\ last.op = "get_resource"
    /\ prev.op = "get_resource" /\ ~prev.hit /\ prev.arg.code = 200

C7_AtMostOneUpstreamCall ==
    (last.op = "get_resource" /\ prev.op = "get_resource" /\ prev.hit)
        => (last.hit /\ last.rest = 0 /\ last.ldap = 0)

\* C8: the cache slot is request-scoped: a record that get_resource returns
\* from the cache slot was stored during the current request, never during
\* an earlier one.
C8_CacheIsRequestScoped ==
    (last.op = "get_resource" /\ last.hit) => last.pre_stored_in = request

C10_MismatchGivesDefaults ==
    (/\ pf.stage = "done"
     /\ pf.email # <<>>
     /\ pf.result[2] # <<>>
     /\ Lower(Decode(LdapRes(pf.result)["mail"][1])) # Lower(pf.email))
        => pf.out[1] = Returned(LdapRecord(pf.email, <<>>, <<>>))

\* The snapshot field each record field is stored under by fetch_extra_data.
ExtraKey ==
    ("PersonID" :> "person_id") @@ ("IdentityClass" :> "identity_class")
    @@ ("Department" :> "department")

\* The handler run that last holds is one of ops.
Ran(ops) == last.op \in ops

\* account_groups_and_extra_data completed in the last handler run.
Refreshed ==
    /\ Ran({"account_setup", "on_identity_changed"})
    /\ last.arg.resource # <<>>
    /\ "Group" \in DOMAIN last.arg.resource[1]

\* C11: every record get_resource returns to account_setup or to a refresh
\* has a key for each known field (EmailAddress, Group, and PersonID or
\* uidNumber), so that neither fails with KeyError for a missing key.
C11_EveryKnownKeyPresent ==
    Ran({"account_setup", "on_identity_changed"})
        => /\ last.raised # "KeyError"
           /\ last.arg.resource # <<>>
                  => /\ {"EmailAddress", "Group"} \subseteq DOMAIN last.arg.resource[1]
                     /\ {"PersonID", "uidNumber"} \cap DOMAIN last.arg.resource[1] # {}

\* C12: when account_groups_and_extra_data has completed, the snapshot's
\* groups are the filtered groups of the record (not appended to the old
\* ones), its updated is the time of the refresh, its extra fields are the
\* serializer's, and the function returned the same filtered list, whatever
\* the snapshot held before.
C12_SnapshotAfterRefresh ==
    Refreshed
        => /\ account # <<>>
           /\ account[1]["groups"]
                  = fetch_groups(last.arg.resource[1]["Group"], HiddenGroups,
                                 HiddenGroupsRe)
           /\ account[1]["updated"] = IsoFormat(utcnow)
           /\ \A k \in {"PersonID", "IdentityClass", "Department"} :
                  account[1][ExtraKey[k]]
                      = IF k \in DOMAIN last.arg.resource[1]
                        THEN last.arg.resource[1][k][1] ELSE None
           /\ (last.op = "account_setup" /\ last.arg.groups # <<>>)
                  => last.arg.groups[1] = account[1]["groups"]
           /\ (last.op = "on_identity_changed" /\ last.arg.groups # <<>>)
                  => last.arg.groups[1]
                         = Get(last.pre_account[1], "groups", <<>>)
                           \o account[1]["groups"]

\* A refresh replaced a snapshot holding one group by one holding another.
C12_Witness ==
    /\ Refreshed
    /\ last.op = "on_identity_changed"
    /\ last.pre_account[1]["groups"] = <<GroupAb>>
    /\ last.pre_account[1]["person_id"] = None
    /\ account[1]["groups"] = <<GroupC>>
    /\ account[1]["person_id"] = <<"7">>
    /\ account[1]["updated"] # last.pre_account[1]["updated"]

\* The stored external id, <<>> when there is no snapshot or none stored.
StoredExternalId(acc) ==
    IF acc # <<>> /\ "external_id" \in DOMAIN acc[1]
    THEN <<acc[1]["external_id"]>> ELSE <<>>

\* C13: an identity-changed event, with or without a refresh, and an
\* identity-loaded event leave the stored external_id as account_setup wrote
\* it; the snapshot is written by account_setup and by the refresh only.
C13_ExternalIdKept ==
    /\ (Ran({"on_identity_changed", "identity_loaded"})
        /\ StoredExternalId(last.pre_account) # <<>>)
           => StoredExternalId(account) = StoredExternalId(last.pre_account)
    /\ (account # <<>> /\ account # last.pre_account)
           => \/ last.op = "account_setup"
              \/ last.op = "on_identity_changed" /\ last.arg.refresh = <<TRUE>>

\* A refresh from a record naming another person rewrote the snapshot of an
\* account set up under external id 4.
C13_Witness ==
    /\ Refreshed
    /\ last.op = "on_identity_changed"
    /\ StoredExternalId(last.pre_account) = <<<<"4">>>>
    /\ account[1]["person_id"] = <<"7">>
    /\ account # last.pre_account

\* C14: when disconnect_handler has returned its redirect, the link, the
\* account and the role cache are gone; while there is neither account nor
\* role cache, an identity-loaded or identity-changed event adds nothing to
\* an identity, and only account_setup brings them back; for a user who is
\* not authenticated the handler answers unauthorized and changes nothing.
C14_Disconnected ==
    /\ (last.op = "disconnect_handler" /\ last.raised = "none"
        /\ current_user.is_authenticated)
           => /\ last.ret = Redirect
              /\ last.pre_account # <<>>
              /\ account = <<>>
              /\ link = <<>>
              /\ cern_provides = <<>>
    /\ (last.op # "account_setup" /\ last.pre_account = <<>>
        /\ last.pre_cache = <<>>)
           => /\ account = <<>>
              /\ cern_provides = <<>>
              /\ provides = IF last.op = "identity_loaded" THEN last.arg
                            ELSE last.pre_provides
    /\ (last.op = "disconnect_handler" /\ ~current_user.is_authenticated)
           => /\ last.raised = "none"
              /\ last.ret = Unauthorized
              /\ account = last.pre_account
              /\ link = last.pre_link
              /\ provides = last.pre_provides
              /\ cern_provides = last.pre_cache

\* A linked account with roles in the session was disconnected.
C14_Witness ==
    /\ last.op = "disconnect_handler"
    /\ last.ret = Redirect
    /\ last.pre_link = <<<<"4">>>>
    /\ last.pre_cache # <<>>
    /\ RoleNeed(RoleName(GroupAb)) \in last.pre_provides
    /\ RoleNeed(RoleName(GroupAb)) \notin provides

\* C15: after an identity-changed event for a linked account, the role
\* cache holds exactly the claims derived from the group list the snapshot
\* now holds.
C15_CacheMatchesSnapshot ==
    (last.op = "on_identity_changed" /\ last.raised = "none"
     /\ current_user.is_authenticated /\ account # <<>>)
        => cern_provides
               = <<DerivedProvides(current_user.email, account[1]["groups"])>>

\* C16: on_identity_changed for a linked account calls get_resource and
\* rewrites the snapshot exactly when should_refresh_groups is true for the
\* snapshot's updated: a stale snapshot is fetched anew and its updated set
\* to the current time; a fresh one costs no upstream call, stays as it is,
\* and the identity is extended with the groups it holds.
C16_RefreshExactlyWhenStale ==
    (last.op = "on_identity_changed" /\ current_user.is_authenticated
     /\ last.pre_account # <<>> /\ "updated" \in DOMAIN last.pre_account[1])
        => IF should_refresh_groups(<<last.pre_account[1]["updated"]>>,
                                    <<OAUTHCLIENT_CERN_REFRESH_TIMEDELTA>>,
                                    utcnow) = Returned(TRUE)
           THEN /\ last.arg.called
                /\ last.arg.resource # <<>>
                       => /\ account # last.pre_account
                          /\ account[1]["updated"] = IsoFormat(utcnow)
           ELSE /\ ~last.arg.called
                /\ last.rest = 0 /\ last.ldap = 0
                /\ account = last.pre_account
                /\ cern_provides
                       = <<DerivedProvides(current_user.email,
                                           last.pre_account[1]["groups"])>>

\* C17: an identity-changed event for an anonymous identity, or for a user
\* without a linked account, raises nothing and changes nothing: no claim,
\* no write of the role cache, no write of a snapshot, no upstream call.
C17_IgnoredEvent ==
    (last.op = "on_identity_changed"
     /\ (~current_user.is_authenticated \/ last.pre_account = <<>>))
        => /\ last.raised = "none"
           /\ provides = last.pre_provides
           /\ cern_provides = last.pre_cache
           /\ account = last.pre_account
           /\ ~last.arg.called
           /\ last.rest = 0 /\ last.ldap = 0

\* The event came for an anonymous identity while the user's account was
\* linked and the session still held roles.
C17_Witness ==
    /\ last.op = "on_identity_changed"
    /\ ~current_user.is_authenticated
    /\ last.pre_account # <<>>
    /\ last.pre_cache # <<>>

\* C18: account_setup under an anonymous identity fails its assertion and
\* keeps nothing: the snapshot, the identity's claims, the role cache and
\* the link are as before.
C18_FailedSetupKeepsNothing ==
    (last.op = "account_setup" /\ last.raised = "AssertionError")
        => /\ ~current_user.is_authenticated
           /\ account = last.pre_account
           /\ provides = last.pre_provides
           /\ cern_provides = last.pre_cache
           /\ link = last.pre_link

\* C19: disconnect_handler for an authenticated user without a linked
\* account raises nothing: nothing is unlinked or deleted, the cached claims
\* leave the identity, the role cache is cleared, a redirect is returned.
C19_DisconnectWithoutAccount ==
    (last.op = "disconnect_handler" /\ current_user.is_authenticated
     /\ last.pre_account = <<>>)
        => /\ last.raised = "none"
           /\ last.ret = Redirect
           /\ account = <<>>
           /\ link = last.pre_link
           /\ provides = last.pre_provides \ CacheSet(last.pre_cache)
           /\ cern_provides = <<>>

\* C20: whatever extend_identity, disconnect_identity and identity-loaded
\* events a session has seen, every claim of the role cache is among the
\* identity's claims, and loading an identity leaves the cache as it was.
C20_CacheWithinIdentity ==
    /\ CacheSet(cern_provides) \subseteq provides
    /\ last.op = "new_request" => cern_provides = last.pre_cache

\* An identity was loaded in a session that held roles it did not have.
C20_Witness ==
    /\ last.op = "new_request"
    /\ cern_provides # <<>>
    /\ RoleNeed(RoleName(GroupC)) \in cern_provides[1]
    /\ prev.op = "extend_identity"
    /\ LocalRole \in provides

====
